---- MODULE Spec2Model ----
(***************************************************************************)
(* Hydrointel: the dataset combiner (backend/src/datasets/data_combiner.py)*)
(* and the prediction service (backend/src/server.py).                     *)
(*                                                                         *)
(* Values are tagged records so that values of different Python types can  *)
(* be compared.  Text that the code takes apart (city names, file names,   *)
(* dates) is a sequence of one-character strings; column names and         *)
(* messages, which the code only compares, are plain strings.              *)
(***************************************************************************)
EXTENDS Integers, Sequences, FiniteSets, TLC

VARIABLES
    rawDirExists,        \* os.path.exists(raw_data_dir)
    rawFiles,            \* the directory listing of datasets/raw, in glob order
    datasetFile,         \* datasets/raw/combined_city_data.csv
    cpc,                 \* position of the data_combiner.py script
    combined_data,       \* combine_and_clean_data's list of normalized frames
    combined_file_path,  \* what combine_and_clean_data returned
    modelFile,           \* ml/advanced_groundwater_model.pkl
    plotFile,            \* ml/model_performance_plot.png exists
    started,             \* server.py's module body has run
    model,               \* server.py global
    historical_data,     \* server.py global
    lastReq,             \* the request handled last
    lastResp,            \* its response
    lastCall,            \* the frame model.predict was called with in that request
    firstResp            \* for each probe request, the first response it got

vars == <<rawDirExists, rawFiles, datasetFile, cpc, combined_data, combined_file_path,
          modelFile, plotFile, started, model, historical_data, lastReq, lastResp, lastCall,
          firstResp>>

combinerVars == <<rawDirExists, rawFiles, cpc, combined_data, combined_file_path>>
serverVars == <<modelFile, plotFile, started, model, historical_data, lastReq, lastResp, lastCall,
                firstResp>>

\* ---------------------------------------------------------------- bounds
MaxRows == 2      \* rows of a table
MaxFiles == 2     \* files in a directory listing with several sources

\* ---------------------------------------------------------------- values
None == [t |-> "None"]
NaN == [t |-> "nan"]
RECURSIVE Gcd(_, _)
Gcd(a, b) == IF b = 0 THEN a ELSE Gcd(b, a % b)

\* a float, kept exactly as the reduced fraction v / d
Rat(n, d) == LET g == Gcd(n, d) IN [t |-> "num", v |-> n \div g, d |-> d \div g]
Num(n) == Rat(n, 1)
Str(s) == [t |-> "str", v |-> s]
Zero == Num(0)                      \* the float 0.0

RECURSIVE Flatten(_)
Flatten(ss) == IF ss = <<>> THEN <<>> ELSE Head(ss) \o Flatten(Tail(ss))

Range(s) == {s[i] : i \in 1..Len(s)}

NoDup(s) == \A i, j \in 1..Len(s) : s[i] = s[j] => i = j

\* ---------------------------------------------------------------- pandas frames
\* A frame is [cols, rows]: cols the column labels in order (labels may repeat),
\* rows a sequence of rows, each a sequence of cells aligned with cols.

cols == <<"Date", "City", "Water_Level_m", "Lat", "Long", "Rainfall_mm",
          "Temperature_C", "pH", "Dissolved_Oxygen_mg_L">>

required_cols == <<"Lat", "Long", "Rainfall_mm", "Temperature_C", "pH",
                   "Dissolved_Oxygen_mg_L">>

HasCol(df, c) == \E i \in 1..Len(df.cols) : df.cols[i] = c

Positions(df, c) == SelectSeq([i \in 1..Len(df.cols) |-> i], LAMBDA i : df.cols[i] = c)

\* df.rename(columns={old: new}, inplace=True): every label equal to old changes
RenameCol(df, old, new) ==
    [df EXCEPT !.cols = [i \in 1..Len(df.cols) |-> IF df.cols[i] = old THEN new ELSE df.cols[i]]]

\* df[c] = v for a scalar v: an existing column is overwritten in place, a new
\* one is appended as the last column
AssignScalar(df, c, v) ==
    IF HasCol(df, c)
    THEN [df EXCEPT !.rows = [r \in 1..Len(df.rows) |->
              [i \in 1..Len(df.cols) |-> IF df.cols[i] = c THEN v ELSE df.rows[r][i]]]]
    ELSE [cols |-> Append(df.cols, c),
          rows |-> [r \in 1..Len(df.rows) |-> Append(df.rows[r], v)]]

\* df[names] for a list of labels: for each label in turn, every column bearing
\* it (a repeated label selects all its columns).  The caller checks the labels exist.
SelectCols(df, names) ==
    LET idx == Flatten([k \in 1..Len(names) |-> Positions(df, names[k])])
    IN [cols |-> [k \in 1..Len(idx) |-> df.cols[idx[k]]],
        rows |-> [r \in 1..Len(df.rows) |-> [k \in 1..Len(idx) |-> df.rows[r][idx[k]]]]]

\* the cells of the first column labelled c, one per row
Column(df, c) == [r \in 1..Len(df.rows) |-> df.rows[r][Head(Positions(df, c))]]

\* pd.read_csv names a repeated header label X as X.1, X.2, ...
MangleDupCols(header) ==
    [i \in 1..Len(header) |->
        LET before == Cardinality({j \in 1..(i - 1) : header[j] = header[i]})
        IN IF before = 0 THEN header[i] ELSE header[i] \o "." \o ToString(before)]

\* pd.read_csv(path) of a file that parses
ReadCsv(file) == [cols |-> MangleDupCols(file.cols), rows |-> file.rows]

\* df.to_csv(path, index=False)
ToCsv(df) == [t |-> "table", cols |-> df.cols, rows |-> df.rows]

\* pd.concat(frames, ignore_index=True) of a non-empty list.  Frames with equal
\* labels are stacked; otherwise the frames are reindexed to the union of the
\* labels, which pandas refuses for a frame whose labels repeat
\* (InvalidIndexError).
ConcatRaises(frames) ==
    /\ \E i \in 1..Len(frames) : frames[i].cols # frames[1].cols
    /\ \E i \in 1..Len(frames) : ~NoDup(frames[i].cols)

Concat(frames) ==
    [cols |-> frames[1].cols,
     rows |-> Flatten([i \in 1..Len(frames) |-> frames[i].rows])]

\* ---------------------------------------------------------------- data_combiner.py
Absent == [t |-> "absent"]
Unparseable == [t |-> "unparseable"]     \* a file pd.read_csv raises on

\* File names are sequences of tokens: single characters, and the words of the
\* naming convention as whole tokens.
Marker == <<"_", "detailed", "_", "groundwater", "_", "data">>

\* glob "*_detailed_groundwater_data*.csv"
GlobMatches(name) ==
    /\ Len(name) >= Len(Marker) + 1
    /\ name[Len(name)] = ".csv"
    /\ \E k \in 1..(Len(name) - Len(Marker)) : SubSeq(name, k, k + Len(Marker) - 1) = Marker

\* glob.glob(...): the matching entries of the listing, in listing order
Glob(listing) == SelectSeq(listing, LAMBDA f : GlobMatches(f.name))

\* os.path.basename(f).split('_')[0]
RECURSIVE FirstToken(_)
FirstToken(name) ==
    IF name = <<>> \/ Head(name) = "_" THEN <<>> ELSE <<Head(name)>> \o FirstToken(Tail(name))

\* mutant: the missing column is added empty (NaN) instead of 0.0
RECURSIVE FillMissing_NaN(_, _)
FillMissing_NaN(df, names) ==
    IF names = <<>> THEN df
    ELSE FillMissing_NaN(IF HasCol(df, Head(names)) THEN df ELSE AssignScalar(df, Head(names), NaN),
                         Tail(names))

\* for col in cols: if col not in df.columns: df[col] = 0.0
RECURSIVE FillMissing(_, _)
FillMissing(df, names) ==
    IF names = <<>> THEN df
    ELSE FillMissing(IF HasCol(df, Head(names)) THEN df ELSE AssignScalar(df, Head(names), Zero),
                     Tail(names))

\* the body of the try block for one source file that pd.read_csv parses
NormalizeSource(f) ==
    LET df0 == ReadCsv(f.content)
        city_name == FirstToken(f.name)
        df1 == AssignScalar(df0, "City", Str(city_name))
        df2 == IF HasCol(df1, "WL") THEN RenameCol(df1, "WL", "WaterLevel") ELSE df1
        df3 == IF HasCol(df2, "WaterLevel") THEN RenameCol(df2, "WaterLevel", "Water_Level_m") ELSE df2
        df4 == FillMissing(df3, cols)
    IN SelectCols(df4, cols)

\* the for loop over all_files: a file that raises is reported and skipped
RECURSIVE ProcessFiles(_, _)
ProcessFiles(files, acc) ==
    IF files = <<>> THEN acc
    ELSE ProcessFiles(Tail(files),
                      IF Head(files).content.t = "table"
                      THEN Append(acc, NormalizeSource(Head(files)))
                      ELSE acc)

OutputPath == [t |-> "path", v |-> "combined_city_data.csv"]

\* combine_and_clean_data(), called by the script's first statement
CombineAndCleanData ==
    /\ cpc = "start"
    /\ LET all_files == Glob(rawFiles)
           processed == ProcessFiles(all_files, <<>>)
       IN IF ~rawDirExists \/ all_files = <<>>
          THEN /\ combined_data' = <<>>
               /\ combined_file_path' = None
               /\ cpc' = "returned"
               /\ UNCHANGED datasetFile
          ELSE IF processed = <<>>
          THEN /\ combined_data' = processed
               /\ combined_file_path' = None
               /\ cpc' = "returned"
               /\ UNCHANGED datasetFile
          ELSE IF ConcatRaises(processed)
          THEN /\ combined_data' = processed
               /\ cpc' = "raised"              \* the script dies with a traceback
               /\ UNCHANGED <<combined_file_path, datasetFile>>
          ELSE /\ combined_data' = processed
               /\ datasetFile' = ToCsv(Concat(processed))
               /\ combined_file_path' = OutputPath
               /\ cpc' = "returned"
    /\ UNCHANGED <<rawDirExists, rawFiles>>
    /\ UNCHANGED serverVars

\* if not combined_file_path: exit()
MainCheck ==
    /\ cpc = "returned"
    /\ cpc' = IF combined_file_path = None THEN "exited" ELSE "training"
    /\ UNCHANGED <<rawDirExists, rawFiles, datasetFile, combined_data, combined_file_path>>
    /\ UNCHANGED serverVars

\* ---------------------------------------------------------------- combiner inputs
City_Mu == <<"M", "u">>
City_mU == <<"m", "U">>
City_Pu == <<"P", "u">>
City_Zz == <<"Z", "z">>

SourceName(head) == head \o Marker \o <<".csv">>

SourceNames == {SourceName(City_Mu), SourceName(<<"N", "_", "D">>),
                City_Pu \o Marker \o <<"_", "2">> \o <<".csv">>}

OtherName == <<"n", "o", "t", "e", "s", ".csv">>

\* the text 2021-03-07
Date_A == <<"2", "0", "2", "1", "-", "0", "3", "-", "0", "7">>

ColumnUniverse == <<"Date", "City", "WL", "WaterLevel", "Water_Level_m", "Station",
                    "Lat", "Long", "Rainfall_mm", "Temperature_C", "pH", "Dissolved_Oxygen_mg_L">>

ColCode(c) == CHOOSE i \in 1..Len(ColumnUniverse) : ColumnUniverse[i] = c

\* the cell of column c in row r of a source table: different in every column and row
SrcCell(c, r) ==
    IF c = "Date" THEN Str(Date_A)
    ELSE IF c = "City" THEN Str(<<"X">>)
    ELSE IF c = "Station" THEN Str(<<"S">>)
    ELSE Num(10 * ColCode(c) + r)

SourceTable(header, n) ==
    [t |-> "table", cols |-> header,
     rows |-> [r \in 1..n |-> [i \in 1..Len(header) |-> SrcCell(header[i], r)]]]

OtherColumns == {<<"Date", "WL">>, <<"Date", "Water_Level_m">>, <<"Date", "WaterLevel">>,
                 <<"Date", "WL", "Water_Level_m">>, <<"WL", "WaterLevel">>,
                 <<"City", "Date", "Water_Level_m", "Station">>, <<>>}

FeatureColumns(S) == SelectSeq(required_cols, LAMBDA c : c \in S)

SourceHeaders ==
    {h \in {o \o FeatureColumns(S) : o \in OtherColumns, S \in SUBSET Range(required_cols)}
           \cup {FeatureColumns(S) \o o : o \in {<<"Date", "WL">>, <<"WL", "Date", "Water_Level_m">>},
                                         S \in SUBSET Range(required_cols)} :
       h # <<>>}

AllSources == {Unparseable} \cup {SourceTable(h, n) : h \in SourceHeaders, n \in 0..MaxRows}

FewSources == {Unparseable,
               SourceTable(<<"Date", "WL", "Lat">>, 1),
               SourceTable(<<"Date", "Water_Level_m">> \o required_cols, 1),
               SourceTable(<<"Date", "WL", "Water_Level_m", "Lat">>, 1)}

File(n, c) == [name |-> n, content |-> c]

SingleListings == {<<>>} \cup {<<File(OtherName, c)>> : c \in FewSources}
                  \cup {<<File(n, c)>> : n \in SourceNames, c \in AllSources}

SeveralListings ==
    UNION {{l \in [1..k -> {File(n, c) : n \in SourceNames \cup {OtherName}, c \in FewSources}] :
               \A i, j \in 1..k : l[i].name = l[j].name => i = j} : k \in 2..MaxFiles}

StaleDataset == ToCsv([cols |-> cols, rows |-> <<>>])

ServerIdle ==
    /\ modelFile = "absent"
    /\ plotFile = FALSE
    /\ started = FALSE
    /\ model = None
    /\ historical_data = None
    /\ lastReq = None
    /\ lastResp = None
    /\ lastCall = None
    /\ firstResp = [q \in {} |-> None]

InitCombiner ==
    /\ rawDirExists \in BOOLEAN
    /\ rawFiles \in SingleListings \cup SeveralListings
    /\ rawDirExists = FALSE => rawFiles = <<>>
    /\ datasetFile \in {Absent, StaleDataset}
    /\ cpc = "start"
    /\ combined_data = <<>>
    /\ combined_file_path = None
    /\ ServerIdle

NextCombiner == CombineAndCleanData \/ MainCheck

SpecCombiner == InitCombiner /\ [][NextCombiner]_vars

\* ---------------------------------------------------------------- server.py
ModelHandle == [t |-> "model"]

\* model.predict(df)[0]: the regressor is opaque, its output a function of the frame
ModelPredict(m, df) == [t |-> "prediction", by |-> m, of |-> df]

Err(status, msg) == [status |-> status, error |-> msg]
\* an exception no handler catches: Flask answers 500
Unhandled(e) == [status |-> 500, unhandled |-> e]
Predicted(p) == [status |-> 200, prediction |-> p]

\* JSON objects are sequences of <<key, value>> pairs; JSON null is Python None
JObj(pairs) == [t |-> "obj", v |-> pairs]
HasKey(obj, k) == \E i \in 1..Len(obj.v) : obj.v[i][1] = k
GetKey(obj, k) ==
    IF HasKey(obj, k) THEN obj.v[CHOOSE i \in 1..Len(obj.v) : obj.v[i][1] = k][2] ELSE None

\* Python truth value: not x
Falsy(x) ==
    \/ x = None
    \/ x.t = "str" /\ x.v = <<>>
    \/ x.t = "num" /\ x.v = 0
    \/ x.t = "obj" /\ x.v = <<>>

UpperLetters == <<"A", "B", "C", "D", "E", "F", "G", "H", "I", "J", "K", "L", "M",
                  "N", "O", "P", "Q", "R", "S", "T", "U", "V", "W", "X", "Y", "Z">>
LowerLetters == <<"a", "b", "c", "d", "e", "f", "g", "h", "i", "j", "k", "l", "m",
                  "n", "o", "p", "q", "r", "s", "t", "u", "v", "w", "x", "y", "z">>

\* str.lower()
Lower(chars) ==
    [i \in 1..Len(chars) |->
        IF \E k \in 1..Len(UpperLetters) : UpperLetters[k] = chars[i]
        THEN LowerLetters[CHOOSE k \in 1..Len(UpperLetters) : UpperLetters[k] = chars[i]]
        ELSE chars[i]]

Digits == <<"0", "1", "2", "3", "4", "5", "6", "7", "8", "9">>
IsDigit(c) == \E k \in 1..Len(Digits) : Digits[k] = c
DigitVal(c) == (CHOOSE k \in 1..Len(Digits) : Digits[k] = c) - 1

RECURSIVE Number(_)
Number(chars) == IF chars = <<>> THEN 0 ELSE 10 * Number(SubSeq(chars, 1, Len(chars) - 1)) + DigitVal(chars[Len(chars)])

RECURSIVE Pow10(_)
Pow10(k) == IF k = 0 THEN 1 ELSE 10 * Pow10(k - 1)

IsLeap(y) == (y % 4 = 0 /\ y % 100 # 0) \/ y % 400 = 0
DaysIn(y, m) == IF m = 2 THEN (IF IsLeap(y) THEN 29 ELSE 28)
                ELSE IF m \in {4, 6, 9, 11} THEN 30 ELSE 31

NaT == [t |-> "NaT"]
Timestamp(y, m, d) == [t |-> "ts", y |-> y, m |-> m, d |-> d]

\* pd.to_datetime(cell, errors='coerce') for the texts the datasets here hold:
\* a well-formed YYYY-MM-DD calendar date parses, anything else is NaT
ToDatetimeCell(cell) ==
    IF cell.t # "str" THEN NaT
    ELSE LET c == cell.v IN
         IF /\ Len(c) = 10
            /\ c[5] = "-" /\ c[8] = "-"
            /\ \A i \in {1, 2, 3, 4, 6, 7, 9, 10} : IsDigit(c[i])
         THEN LET y == Number(SubSeq(c, 1, 4))
                  m == Number(SubSeq(c, 6, 7))
                  d == Number(SubSeq(c, 9, 10))
              IN IF m \in 1..12 /\ d \in 1..DaysIn(y, m) THEN Timestamp(y, m, d) ELSE NaT
         ELSE NaT

Pad(n, w) == [i \in 1..w |-> Digits[((n \div Pow10(w - i)) % 10) + 1]]

\* Timestamp.strftime('%Y-%m-%d')
Strftime(ts) == Str(Pad(ts.y, 4) \o <<"-">> \o Pad(ts.m, 2) \o <<"-">> \o Pad(ts.d, 2))

\* historical_data['Date'] = pd.to_datetime(historical_data['Date'], errors='coerce')
ToDatetime(df) ==
    [df EXCEPT !.rows = [r \in 1..Len(df.rows) |->
        [i \in 1..Len(df.cols) |-> IF df.cols[i] = "Date" THEN ToDatetimeCell(df.rows[r][i])
                                                         ELSE df.rows[r][i]]]]

\* historical_data.dropna(subset=['Date'], inplace=True)
DropNaDate(df) ==
    [df EXCEPT !.rows = SelectSeq(df.rows, LAMBDA row : row[Head(Positions(df, "Date"))] # NaT)]

\* mutant: rows whose Date did not parse are kept
LoadDataset_KeepNaT(file) ==
    IF file.t # "table" THEN None
    ELSE LET df == ReadCsv(file)
         IN IF ~HasCol(df, "Date") THEN df ELSE ToDatetime(df)

\* the dataset block of the module body: historical_data is bound by read_csv
\* before the Date column is touched, so a table without a Date column stays
\* bound, unconverted, when the KeyError is caught
LoadDataset(file) ==
    IF file.t # "table" THEN None
    ELSE LET df == ReadCsv(file)
         IN IF ~HasCol(df, "Date") THEN df ELSE DropNaDate(ToDatetime(df))

\* the model block of the module body
LoadModel(file) == IF file = "ok" THEN ModelHandle ELSE None

\* the module body of server.py
Startup ==
    /\ ~started
    /\ started' = TRUE
    /\ model' = LoadModel(modelFile)
    /\ historical_data' = LoadDataset(datasetFile)
    /\ UNCHANGED <<modelFile, plotFile, datasetFile, lastReq, lastResp, lastCall, firstResp>>
    /\ UNCHANGED combinerVars

\* mutant: the comparison is case-sensitive
FilterCity_CaseSensitive(df, city) ==
    LET p == Head(Positions(df, "City"))
    IN [df EXCEPT !.rows = SelectSeq(df.rows, LAMBDA row : row[p].t = "str" /\ row[p].v = city.v)]

\* historical_data[historical_data['City'].str.lower() == city.lower()]
FilterCity(df, city) ==
    LET p == Head(Positions(df, "City"))
    IN [df EXCEPT !.rows = SelectSeq(df.rows,
            LAMBDA row : row[p].t = "str" /\ Lower(row[p].v) = Lower(city.v))]

RECURSIVE RatSum(_)
RatSum(cells) ==
    IF cells = <<>> THEN Rat(0, 1)
    ELSE LET a == Head(cells)
             b == RatSum(Tail(cells))
         IN Rat(a.v * b.d + b.v * a.d, a.d * b.d)

\* Series.mean(): NaN cells are skipped; the mean of no cells is NaN
Mean(cells) ==
    LET nums == SelectSeq(cells, LAMBDA c : c.t = "num")
    IN IF nums = <<>> THEN NaN
       ELSE LET s == RatSum(nums) IN Rat(s.v, s.d * Len(nums))

\* pd.DataFrame([d]) for a dict d: one row, the keys as columns in dict order
FrameOfDict(pairs) ==
    [cols |-> [i \in 1..Len(pairs) |-> pairs[i][1]],
     rows |-> <<[i \in 1..Len(pairs) |-> pairs[i][2]]>>]

\* mutant: the frame is not put in the required column order
PredictFrame_Unordered(features) == FillMissing(FrameOfDict(features.v), required_cols)

\* the try block of predict()
PredictFrame(features) ==
    SelectCols(FillMissing(FrameOfDict(features.v), required_cols), required_cols)

\* POST /predict; the result is the response and the frame given to the model
predict(data) ==
    IF model = None THEN [resp |-> Err(500, "Model not loaded."), call |-> None]
    ELSE IF Falsy(data) \/ ~HasKey(data, "features")
    THEN [resp |-> Err(400, "Invalid input data. \"features\" key is missing."), call |-> None]
    ELSE LET features_df == PredictFrame(GetKey(data, "features"))
         IN [resp |-> Predicted(ModelPredict(model, features_df)), call |-> features_df]

\* city_data[[...six features...]].mean().to_dict(), then pd.DataFrame([avg_features])
AverageFrame(city_data) ==
    [cols |-> required_cols,
     rows |-> <<[k \in 1..Len(required_cols) |-> Mean(Column(city_data, required_cols[k]))]>>]

\* POST /predict_by_city
predict_by_city(data) ==
    IF model = None THEN [resp |-> Err(500, "Model not loaded."), call |-> None]
    ELSE IF historical_data = None
    THEN [resp |-> Err(500, "Historical data not loaded on the server."), call |-> None]
    ELSE IF data.t # "obj" THEN [resp |-> Unhandled("AttributeError"), call |-> None]
    ELSE LET city == GetKey(data, "city") IN
         IF Falsy(city) THEN [resp |-> Err(400, "City parameter is required."), call |-> None]
         ELSE IF ~HasCol(historical_data, "City") THEN [resp |-> Unhandled("KeyError"), call |-> None]
         ELSE IF city.t # "str" THEN [resp |-> Unhandled("AttributeError"), call |-> None]
         ELSE LET city_data == FilterCity(historical_data, city) IN
              IF city_data.rows = <<>>
              THEN [resp |-> Err(404, "No data found for the specified city."), call |-> None]
              ELSE IF \E k \in 1..Len(required_cols) : ~HasCol(city_data, required_cols[k])
              THEN [resp |-> Err(500, "An error occurred during prediction"), call |-> None]
              ELSE LET features_df == AverageFrame(city_data)
                   IN [resp |-> Predicted(ModelPredict(model, features_df)), call |-> features_df]

\* the loop over historical_records: a Timestamp is formatted; NaT is a datetime
\* whose strftime raises ValueError; anything else is no datetime
HistoricalRecord(date, level) ==
    [Date |-> IF date.t = "ts" THEN Strftime(date) ELSE None, Water_Level_m |-> level]

\* GET /historical_data; city is request.args.get('city'): a string or None
get_historical_data(city) ==
    IF historical_data = None
    THEN Err(500, "Historical data not loaded on the server.")
    ELSE IF Falsy(city) THEN Err(400, "City parameter is required.")
    ELSE IF ~HasCol(historical_data, "City") THEN Unhandled("KeyError")
    ELSE LET city_data == FilterCity(historical_data, city) IN
         IF city_data.rows = <<>> THEN Err(404, "No data found for the specified city.")
         ELSE IF ~HasCol(city_data, "Date") \/ ~HasCol(city_data, "Water_Level_m")
         THEN Unhandled("KeyError")
         ELSE LET sel == SelectCols(city_data, <<"Date", "Water_Level_m">>)
              IN [status |-> 200,
                  records |-> [r \in 1..Len(sel.rows) |->
                                  HistoricalRecord(sel.rows[r][1], sel.rows[r][2])]]

\* GET /model_performance
get_model_performance_plot ==
    IF ~plotFile THEN Err(404, "Model performance plot not found.")
    ELSE [status |-> 200, image |-> "image/png"]

Request(op, arg) == [op |-> op, arg |-> arg]

\* the requests whose first response is kept for comparison
ProbeRequests == {Request("historical_data", Str(<<"M", "u">>)),
                  Request("predict_by_city", JObj(<<<<"city", Str(<<"M", "u">>)>>>>))}

Remember(req, resp) ==
    firstResp' = IF req \in ProbeRequests /\ firstResp[req] = None
                 THEN [firstResp EXCEPT ![req] = resp]
                 ELSE firstResp

Predict(bodies) ==
    /\ started
    /\ \E data \in bodies :
          /\ lastReq' = Request("predict", data)
          /\ lastResp' = predict(data).resp
          /\ lastCall' = predict(data).call
          /\ Remember(Request("predict", data), predict(data).resp)
    /\ UNCHANGED <<modelFile, plotFile, datasetFile, started, model, historical_data>>
    /\ UNCHANGED combinerVars

PredictByCity(bodies) ==
    /\ started
    /\ \E data \in bodies :
          /\ lastReq' = Request("predict_by_city", data)
          /\ lastResp' = predict_by_city(data).resp
          /\ lastCall' = predict_by_city(data).call
          /\ Remember(Request("predict_by_city", data), predict_by_city(data).resp)
    /\ UNCHANGED <<modelFile, plotFile, datasetFile, started, model, historical_data>>
    /\ UNCHANGED combinerVars

\* mutant: the handler formats the dates of the shared frame in place
GetHistoricalData_InPlace(cities) ==
    /\ started
    /\ \E city \in cities :
          /\ lastReq' = Request("historical_data", city)
          /\ lastResp' = get_historical_data(city)
          /\ lastCall' = None
          /\ Remember(Request("historical_data", city), get_historical_data(city))
    /\ historical_data' =
          IF historical_data = None THEN None
          ELSE [historical_data EXCEPT !.rows = [r \in 1..Len(historical_data.rows) |->
                   [i \in 1..Len(historical_data.cols) |->
                       IF historical_data.cols[i] = "Date" /\ historical_data.rows[r][i].t = "ts"
                       THEN Strftime(historical_data.rows[r][i])
                       ELSE historical_data.rows[r][i]]]]
    /\ UNCHANGED <<modelFile, plotFile, datasetFile, started, model>>
    /\ UNCHANGED combinerVars

GetHistoricalData(cities) ==
    /\ started
    /\ \E city \in cities :
          /\ lastReq' = Request("historical_data", city)
          /\ lastResp' = get_historical_data(city)
          /\ lastCall' = None
          /\ Remember(Request("historical_data", city), get_historical_data(city))
    /\ UNCHANGED <<modelFile, plotFile, datasetFile, started, model, historical_data>>
    /\ UNCHANGED combinerVars

GetModelPerformancePlot ==
    /\ started
    /\ lastReq' = Request("model_performance", None)
    /\ lastResp' = get_model_performance_plot
    /\ lastCall' = None
    /\ Remember(Request("model_performance", None), get_model_performance_plot)
    /\ UNCHANGED <<modelFile, plotFile, datasetFile, started, model, historical_data>>
    /\ UNCHANGED combinerVars

\* ---------------------------------------------------------------- server inputs
\* the texts 2020-12-25 and 2021-13-07 (no such month)
Date_B == <<"2", "0", "2", "0", "-", "1", "2", "-", "2", "5">>
Date_Bad == <<"2", "0", "2", "1", "-", "1", "3", "-", "0", "7">>

Features_1 == <<Num(10), Num(20), Num(5), Num(30), Num(7), Num(6)>>
Features_2 == <<Num(13), Num(22), Num(8), Num(31), Num(8), Num(4)>>
Features_3 == <<NaN, Num(21), Num(0), Num(29), NaN, Num(9)>>

\* a row of the combined dataset, in the canonical column order
DataRow(date, city, level, features) == <<date, Str(city), Num(level)>> \o features

RowChoices ==
    {DataRow(Str(Date_A), City_Mu, 3, Features_1),
     DataRow(Str(Date_B), <<"M", "U">>, 4, Features_2),
     DataRow(NaN, <<"m", "u">>, 6, Features_3),
     DataRow(Str(Date_A), City_Pu, 7, Features_3),
     DataRow(Str(Date_Bad), City_Pu, 8, Features_1)}

DataTables == UNION {[1..k -> RowChoices] : k \in 0..MaxRows}

\* the same table without its Date column
WithoutDate(rows) ==
    [t |-> "table", cols |-> Tail(cols), rows |-> [r \in 1..Len(rows) |-> Tail(rows[r])]]

\* a combined file whose header repeats Water_Level_m
TwoLevels(rows) ==
    [t |-> "table",
     cols |-> <<"Date", "City", "Water_Level_m", "Water_Level_m">> \o required_cols,
     rows |-> [r \in 1..Len(rows) |-> SubSeq(rows[r], 1, 3) \o <<Num(9)>> \o SubSeq(rows[r], 4, 9)]]

DatasetFiles ==
    {Absent, Unparseable}
    \cup {[t |-> "table", cols |-> cols, rows |-> rows] : rows \in DataTables}
    \cup {WithoutDate(rows) : rows \in {x \in DataTables : Len(x) <= 1}}
    \cup {TwoLevels(rows) : rows \in {x \in DataTables : Len(x) = 1}}

\* a features object: the given names, last required column first
FeatureValue(c) == Num(ColCode(c))
Reverse(s) == [i \in 1..Len(s) |-> s[Len(s) + 1 - i]]
FeaturesObject(S) ==
    JObj([i \in 1..Cardinality(S) |->
            LET c == Reverse(FeatureColumns(S))[i] IN <<c, FeatureValue(c)>>])

NoFeaturesBodies == {None, JObj(<<>>), JObj(<<<<"city", Str(City_Mu)>>>>)}
AllPredictBodies ==
    NoFeaturesBodies \cup {JObj(<<<<"features", FeaturesObject(S)>>>>) : S \in SUBSET Range(required_cols)}
FewPredictBodies ==
    NoFeaturesBodies \cup {JObj(<<<<"features", FeaturesObject({"Lat"})>>>>)}

CityValues == {Str(City_Mu), Str(City_mU), Str(City_Pu), Str(City_Zz), Str(<<>>), Num(5), Num(0), None}
CityBodies == {None, JObj(<<>>)} \cup {JObj(<<<<"city", v>>>>) : v \in CityValues}
CityArgs == {None, Str(<<>>), Str(City_Mu), Str(City_mU), Str(City_Pu), Str(City_Zz)}

CombinerIdle ==
    /\ rawDirExists = FALSE
    /\ rawFiles = <<>>
    /\ cpc = "start"
    /\ combined_data = <<>>
    /\ combined_file_path = None

InitServer ==
    /\ modelFile \in {"absent", "corrupt", "ok"}
    /\ plotFile \in BOOLEAN
    /\ datasetFile \in DatasetFiles
    /\ started = FALSE
    /\ model = None
    /\ historical_data = None
    /\ lastReq = None
    /\ lastResp = None
    /\ lastCall = None
    /\ firstResp = [q \in ProbeRequests |-> None]
    /\ CombinerIdle

NextServer ==
    \/ Startup
    \/ Predict(FewPredictBodies)
    \/ PredictByCity(CityBodies)
    \/ GetHistoricalData(CityArgs)
    \/ GetModelPerformancePlot

SpecServer == InitServer /\ [][NextServer]_vars

\* point predictions alone, over every features object
InitPredict ==
    /\ InitServer
    /\ datasetFile \in {Absent, [t |-> "table", cols |-> cols, rows |-> <<>>]}

NextPredict == Startup \/ Predict(AllPredictBodies)

SpecPredict == InitPredict /\ [][NextPredict]_vars

\* ---------------------------------------------------------------- combiner claims
CombinerRan == cpc # "start"

\* the discovered sources that pd.read_csv parses, in discovery order
ParsedSources == SelectSeq(Glob(rawFiles), LAMBDA f : f.content.t = "table")

AllCells(df, c, v) == \A r \in 1..Len(df.rows) : \A i \in 1..Len(df.cols) : df.cols[i] = c => df.rows[r][i] = v

\* C3 as stated: the output of every parsed source has every canonical column,
\* every canonical column absent from the source holds 0.0 in every row, and
\* every canonical column present in the source keeps its values.
C3_AsStated ==
    CombinerRan =>
        /\ Len(combined_data) = Len(ParsedSources)
        /\ \A i \in 1..Len(ParsedSources) :
              LET src == ParsedSources[i].content
                  out == combined_data[i]
              IN \A c \in Range(cols) :
                    /\ HasCol(out, c)
                    /\ IF HasCol(src, c) THEN Column(out, c) = Column(src, c)
                                         ELSE AllCells(out, c, Zero)

\* C3 amended: the output of every parsed source has every canonical column and
\* as many rows as the source; each of Date and the six feature columns holds
\* 0.0 in every row when the source lacks it and the source's values when the
\* source has it; so does Water_Level_m when the source has no WaterLevel or WL
\* column; City holds the file-name token in every row.
C3_Amended ==
    CombinerRan =>
        /\ Len(combined_data) = Len(ParsedSources)
        /\ \A i \in 1..Len(ParsedSources) :
              LET src == ParsedSources[i].content
                  out == combined_data[i]
              IN /\ \A c \in Range(cols) : HasCol(out, c)
                 /\ Len(out.rows) = Len(src.rows)
                 /\ \A c \in Range(required_cols) \cup {"Date"} :
                       IF HasCol(src, c) THEN Column(out, c) = Column(src, c)
                                         ELSE AllCells(out, c, Zero)
                 /\ (~HasCol(src, "WaterLevel") /\ ~HasCol(src, "WL"))
                       => IF HasCol(src, "Water_Level_m")
                          THEN Column(out, "Water_Level_m") = Column(src, "Water_Level_m")
                          ELSE AllCells(out, "Water_Level_m", Zero)
                 /\ AllCells(out, "City", Str(FirstToken(ParsedSources[i].name)))

\* a source with rows that has some feature columns and lacks others was normalized
C3_Witness ==
    /\ CombinerRan
    /\ \E i \in 1..Len(ParsedSources) :
          LET src == ParsedSources[i].content
          IN /\ Len(src.rows) > 0
             /\ HasCol(src, "Lat") /\ ~HasCol(src, "pH") /\ ~HasCol(src, "Long")
             /\ i <= Len(combined_data)
             /\ AllCells(combined_data[i], "pH", Zero)

\* C4: the output of every parsed source has exactly the canonical columns, each
\* once, in the canonical order, and City is the leading token of the file name.
C4_Claim ==
    CombinerRan =>
        /\ Len(combined_data) = Len(ParsedSources)
        /\ \A i \in 1..Len(ParsedSources) :
              /\ combined_data[i].cols = cols
              /\ AllCells(combined_data[i], "City", Str(FirstToken(ParsedSources[i].name)))

\* C10: the combiner writes the output file and returns its path exactly when a
\* discovered source parses; the file then holds the normalized rows of every
\* parsed source; otherwise it returns no path and leaves the file alone.
C10_Claim ==
    [][(cpc = "start" /\ cpc' # "start") =>
          IF ParsedSources # <<>>
          THEN /\ combined_file_path' = OutputPath
               /\ datasetFile'.t = "table"
               /\ datasetFile'.rows =
                      Flatten([i \in 1..Len(ParsedSources) |-> NormalizeSource(ParsedSources[i]).rows])
          ELSE /\ combined_file_path' = None
               /\ datasetFile' = datasetFile]_vars

\* ---------------------------------------------------------------- server claims
IsRequest(op) == started /\ lastReq # None /\ lastReq.op = op

NotFound == Err(404, "No data found for the specified city.")

ResourceUnavailable(resp) ==
    resp \in {Err(500, "Model not loaded."), Err(500, "Historical data not loaded on the server.")}

\* the load blocks of the module body ran to their end
ModelLoadSucceeded == modelFile = "ok"
DatasetLoadSucceeded == datasetFile.t = "table" /\ HasCol(datasetFile, "Date")

\* a and b are the same text up to the case of their letters
EqualIgnoringCase(a, b) ==
    /\ Len(a) = Len(b)
    /\ \A i \in 1..Len(a) :
          \/ a[i] = b[i]
          \/ \E k \in 1..Len(UpperLetters) : {a[i], b[i]} = {UpperLetters[k], LowerLetters[k]}

NonEmptyText(x) == x.t = "str" /\ x.v # <<>>

\* C1: the service starts whatever the files hold, and afterwards a request is
\* answered with a resource-unavailable 500 exactly when the load of a resource
\* its operation requires did not succeed: /predict requires the model,
\* /historical_data the dataset, /predict_by_city both.
C1_Claim ==
    /\ ~started => ENABLED Startup
    /\ (started /\ lastReq # None) =>
          (ResourceUnavailable(lastResp) <=>
              \/ lastReq.op \in {"predict", "predict_by_city"} /\ ~ModelLoadSucceeded
              \/ lastReq.op \in {"predict_by_city", "historical_data"} /\ ~DatasetLoadSucceeded)

\* the rows of the combined dataset file whose City is the given city ignoring case
FileRowsOf(city) == SelectSeq(datasetFile.rows, LAMBDA row : EqualIgnoringCase(row[2].v, city.v))

\* C2: with the model and the dataset loaded and a city some record of the
\* combined dataset bears, the frame given to the model holds, for each of the
\* six features, the mean over all records of the combined dataset with that
\* city, and the response is the model's output for that frame.
C2_Claim ==
    (/\ IsRequest("predict_by_city")
     /\ model # None /\ historical_data # None
     /\ datasetFile.t = "table" /\ datasetFile.cols = cols
     /\ lastReq.arg # None /\ HasKey(lastReq.arg, "city")
     /\ NonEmptyText(GetKey(lastReq.arg, "city"))
     /\ FileRowsOf(GetKey(lastReq.arg, "city")) # <<>>)
    => LET rows == FileRowsOf(GetKey(lastReq.arg, "city"))
           expected == [cols |-> required_cols,
                        rows |-> <<[k \in 1..Len(required_cols) |->
                                      Mean([r \in 1..Len(rows) |-> rows[r][k + 3]])]>>]
       IN /\ lastCall = expected
          /\ lastResp = Predicted(ModelPredict(model, expected))

CalendarDateTexts == {Date_A, Date_B}

ExpectedHistory(city) ==
    LET rows == SelectSeq(datasetFile.rows,
                    LAMBDA row : /\ EqualIgnoringCase(row[2].v, city.v)
                                 /\ row[1].t = "str" /\ row[1].v \in CalendarDateTexts)
    IN [r \in 1..Len(rows) |-> [Date |-> rows[r][1], Water_Level_m |-> rows[r][3]]]

\* C6: a 200 response of /historical_data lists exactly the records of the city
\* whose Date parsed, in dataset order, each with its Date as YYYY-MM-DD and its
\* Water_Level_m; a record whose Date did not parse is not listed, with or
\* without a date; and when the city has a record whose Date parsed the
\* response is 200.
C6_Claim ==
    (/\ IsRequest("historical_data")
     /\ lastReq.arg # None /\ NonEmptyText(lastReq.arg)
     /\ DatasetLoadSucceeded)
    => LET expected == ExpectedHistory(lastReq.arg)
       IN /\ expected # <<>> => lastResp.status = 200
          /\ lastResp.status = 200 => lastResp.records = expected

\* a city with a record whose Date parsed and one whose Date did not was looked up
C6_Witness ==
    /\ IsRequest("historical_data")
    /\ lastReq.arg = Str(City_Pu)
    /\ DatasetLoadSucceeded
    /\ Len(FileRowsOf(Str(City_Pu))) = 2
    /\ lastResp.status = 200
    /\ Len(lastResp.records) = 1

LacksRequiredField ==
    \/ /\ lastReq.op = "predict"
       /\ (lastReq.arg = None \/ ~HasKey(lastReq.arg, "features"))
    \/ /\ lastReq.op = "predict_by_city"
       /\ \/ lastReq.arg = None
          \/ ~HasKey(lastReq.arg, "city")
          \/ ~NonEmptyText(GetKey(lastReq.arg, "city"))
    \/ /\ lastReq.op = "historical_data"
       /\ (lastReq.arg = None \/ ~NonEmptyText(lastReq.arg))

\* C7: a request without its required field is answered 400 with an error
\* message, whatever was loaded.
C7_Claim ==
    (started /\ lastReq # None /\ LacksRequiredField)
    => (lastResp.status = 400 /\ "error" \in DOMAIN lastResp)

\* the city a well-formed city request names
RequestedCity == IF lastReq.op = "historical_data" THEN lastReq.arg ELSE GetKey(lastReq.arg, "city")

WellFormedCityRequest ==
    /\ started /\ lastReq # None
    /\ \/ lastReq.op = "historical_data" /\ lastReq.arg # None
       \/ lastReq.op = "predict_by_city" /\ lastReq.arg # None /\ HasKey(lastReq.arg, "city")
    /\ NonEmptyText(RequestedCity)

StoredRowsOf(city) ==
    SelectSeq(historical_data.rows,
              LAMBDA row : EqualIgnoringCase(row[Head(Positions(historical_data, "City"))].v, city.v))

\* C8: with the dataset loaded (and the model, for /predict_by_city), a city no
\* stored record bears, ignoring case, is answered 404 not found; a city some
\* stored record bears up to letter case is not: /predict_by_city answers 200,
\* and /historical_data answers 200 with one entry per such record.
C8_Claim ==
    (/\ WellFormedCityRequest
     /\ historical_data # None
     /\ lastReq.op = "predict_by_city" => model # None)
    => LET stored == StoredRowsOf(RequestedCity)
       IN IF stored = <<>> THEN lastResp = NotFound
          ELSE /\ lastResp # NotFound
               /\ lastReq.op = "predict_by_city" => lastResp.status = 200
               /\ (lastReq.op = "historical_data" /\ HasCol(historical_data, "Date"))
                     => (lastResp.status = 200 /\ Len(lastResp.records) = Len(stored))

\* a city no stored record bears was asked of a dataset that holds records
C8_Witness ==
    /\ WellFormedCityRequest
    /\ RequestedCity = Str(City_Zz)
    /\ historical_data # None /\ Len(historical_data.rows) > 0
    /\ lastResp = NotFound

\* C9: no request changes the loaded model or the loaded dataset, and a request
\* gets the response the same request got the first time, whatever ran between.
C9_Claim ==
    [][started =>
          /\ model' = model
          /\ historical_data' = historical_data
          /\ lastReq' \in ProbeRequests => lastResp' = firstResp'[lastReq']
          /\ lastReq' = lastReq => lastResp' = lastResp]_vars

\* both probe requests were answered 200 and the history lookup ran last
C9_Witness ==
    /\ started
    /\ lastReq = Request("historical_data", Str(City_Mu))
    /\ lastResp.status = 200
    /\ \A q \in ProbeRequests : firstResp[q] # None /\ firstResp[q].status = 200

====
